---- MODULE Spec2Model ----
(***************************************************************************)
(* The instrumentation scripts of backend/scripts: each script reads one   *)
(* source file, rewrites it with regular-expression passes and writes it   *)
(* back.                                                                   *)
(*                                                                         *)
(* A text is a sequence of tokens.  A token is a piece of source text that *)
(* the regular expressions of the scripts treat as a unit: the two braces  *)
(* are tokens of their own (the character classes [^}] and the literals \{ *)
(* \} see them), so are the three kinds of white space (\s), the comma,    *)
(* and every literal a pattern names.  Every other token is text holding   *)
(* no brace and no literal of any pattern, and no token that ends in a     *)
(* blank stands next to a white-space token.                               *)
(***************************************************************************)
EXTENDS Integers, Sequences, FiniteSets, TLC

\* file:     the text of the target file on disk
\* content:  the text main() holds in memory
\* original: the text of the file when the current run started
\* pc:       how far main() has come ("aborted" after an I/O failure)
\* runs:     how many times the script has been started
VARIABLES file, content, original, pc, runs

vars == <<file, content, original, pc, runs>>

(***************************************************************************)
(* Bounds of the model.                                                    *)
(***************************************************************************)
MaxFrags == 3
MaxRuns == 2

(***************************************************************************)
(* Tokens.                                                                 *)
(***************************************************************************)
SP == " "
IND == "  "
NL == "\n"
WS == {SP, IND, NL}
LB == "{"
RB == "}"
COMMA == ","
SEMI == ";"
END == ");"
STATUS == "res.status("
JSON == ").json("
ERROR == "error:"
CATCH == " catch (error) "
DURATION == "const duration = Date.now() - startTime;"
IF_DEBUG == "if (debugInfo) "
CONST_ERR == "const errorResponse = "
ATTACH == "debugInfo ? expertModeService.attachDebugInfo(errorResponse, debugInfo) : errorResponse"
PERF == "debugInfo.performance = expertModeService.collectPerformanceMetrics();"
CTX == "debugInfo.context = expertModeService.collectRequestContext(req);"
IF_NOT_CFG == "if (!puppetserverService) "
IF_NOT_INIT == "if (!puppetserverService.isInitialized()) "
WARN == "logger.warn"
Codes == {"400", "503"}

(***************************************************************************)
(* Helpers of the matchers.                                                *)
(***************************************************************************)
At(t, i, tok) == i >= 1 /\ i <= Len(t) /\ t[i] = tok

AtCode(t, i) == i >= 1 /\ i <= Len(t) /\ t[i] \in Codes

Slice(t, a, b) == IF a > b THEN <<>> ELSE SubSeq(t, a, b)

\* \s* followed by something that is no white space: the first position at or
\* after i that holds no white space (Len(t) + 1 at the end of the text).
SkipWs(t, i) ==
  IF i > Len(t) THEN i
  ELSE CHOOSE j \in i..(Len(t) + 1) :
         /\ \A k \in i..(j - 1) : t[k] \in WS
         /\ (j = Len(t) + 1 \/ t[j] \notin WS)

\* [^}]* followed by \}: the position of the first closing brace at or after i,
\* 0 when there is none.
FirstClose(t, i) ==
  LET S == {j \in i..Len(t) : t[j] = RB}
  IN IF S = {} THEN 0 ELSE CHOOSE j \in S : \A k \in S : j <= k

Max(S) == CHOOSE x \in S : \A y \in S : y <= x

Min(S) == CHOOSE x \in S : \A y \in S : x <= y

Count(t, tok) == Cardinality({i \in 1..Len(t) : t[i] = tok})

(***************************************************************************)
(* add-error-debug-info.py                                                 *)
(***************************************************************************)

\* The pattern of add_debug_to_catch_block at position i: the position after
\* the match, 0 when it does not match.
CatchPatternEnd(t, i) ==
  IF At(t, i, RB) /\ At(t, i + 1, CATCH) /\ At(t, i + 2, LB)
  THEN LET j == SkipWs(t, i + 3)
       IN IF At(t, j, DURATION) THEN j + 1 ELSE 0
  ELSE 0

\* <bt> stands for the backquote of the template literal.
CatchBlock ==
  << NL, NL, IND, IF_DEBUG, LB, NL, IND, "debugInfo.duration = duration;", NL,
     IND, "expertModeService.addError(debugInfo, ", LB, NL,
     IND, "message: <bt>Error: $", LB,
     "error instanceof Error ? error.message : 'Unknown error'", RB, "<bt>", COMMA, NL,
     IND, "stack: error instanceof Error ? error.stack : undefined", COMMA, NL,
     IND, "level: 'error'", COMMA, NL,
     IND, RB, END, NL, IND, PERF, NL, IND, CTX, NL, IND, RB >>

\* re.sub from position i on: the text up to the leftmost match is kept, the
\* match is replaced, and the scan goes on after the match.
RECURSIVE SubCatch(_, _)
SubCatch(t, i) ==
  LET S == {j \in i..Len(t) : CatchPatternEnd(t, j) # 0}
  IN IF S = {} THEN Slice(t, i, Len(t))
     ELSE LET j == Min(S)
              e == CatchPatternEnd(t, j)
          IN Slice(t, i, e - 1) \o CatchBlock \o SubCatch(t, e)

add_debug_to_catch_block(t) == SubCatch(t, 1)

\* The wrapped response both scripts build: the text before the error content,
\* and the text after it.
WrappedHead(lead) ==
  <<CONST_ERR, LB, NL, IND>> \o lead

WrappedTail(code) ==
  << NL, IND, RB, SEMI, NL, IND, STATUS, code, JSON, NL, IND, ATTACH, NL, IND, END >>

\* The pattern of add_debug_to_error_responses at position i: the position of
\* the brace that closes the error object (the captured content lies between
\* bodyStart and it) and the position after the match; end = 0 when it does
\* not match.  [^}]+ runs to the first closing brace and no further.
ErrPatternPlain(t, i) ==
  LET NoMatch == [bodyStart |-> 0, close |-> 0, end |-> 0]
  IN IF At(t, i, STATUS) /\ AtCode(t, i + 1) /\ At(t, i + 2, JSON) /\ At(t, i + 3, LB)
     THEN LET j == SkipWs(t, i + 4)
          IN IF At(t, j, ERROR) /\ At(t, j + 1, SP) /\ At(t, j + 2, LB)
             THEN LET c == FirstClose(t, j + 3)
                      k == SkipWs(t, c + 1)
                  IN IF c > j + 3 /\ At(t, k, RB) /\ At(t, k + 1, END)
                     THEN [bodyStart |-> j + 3, close |-> c, end |-> k + 2]
                     ELSE NoMatch
             ELSE NoMatch
     ELSE NoMatch

RECURSIVE SubErrPlain(_, _)
SubErrPlain(t, i) ==
  LET S == {j \in i..Len(t) : ErrPatternPlain(t, j).end # 0}
  IN IF S = {} THEN Slice(t, i, Len(t))
     ELSE LET j == Min(S)
              m == ErrPatternPlain(t, j)
          IN Slice(t, i, j - 1)
               \o WrappedHead(<<ERROR, SP, LB>>)
               \o Slice(t, m.bodyStart, m.close - 1)
               \o <<RB>> \o WrappedTail(t[j + 1])
               \o SubErrPlain(t, m.end)

add_debug_to_error_responses(t) == SubErrPlain(t, 1)

WarnBlock(msg) ==
  << NL, NL, IND, IF_DEBUG, LB, NL,
     IND, "debugInfo.duration = Date.now() - startTime;", NL,
     IND, "expertModeService.addWarning(debugInfo, ", LB, NL,
     IND, msg, COMMA, NL,
     IND, "level: 'warn'", COMMA, NL,
     IND, RB, END, NL, IND, PERF, NL, IND, CTX, NL, IND, RB, NL, NL, IND >>

MSG_NOT_CFG == "message: \"Puppetserver integration is not configured\""
MSG_NOT_INIT == "message: \"Puppetserver integration is not initialized\""

\* The outer pattern of add_debug_to_early_returns at position i: the guard
\* (group 1) is t[i..guardClose], the response (group 2) is t[resp..end-1];
\* end = 0 when it does not match.
EarlyPattern(t, i) ==
  LET NoMatch == [guardClose |-> 0, resp |-> 0, end |-> 0]
  IN IF At(t, i, IF_NOT_CFG) /\ At(t, i + 1, LB)
     THEN LET c == FirstClose(t, i + 2)
              r == SkipWs(t, c + 1)
          IN IF /\ c # 0
                /\ \E w \in (i + 3)..(c - 2) : t[w] = WARN
                /\ At(t, r, STATUS) /\ AtCode(t, r + 1)
                /\ At(t, r + 2, JSON) /\ At(t, r + 3, LB)
             THEN LET c2 == FirstClose(t, r + 4)
                  IN IF c2 > r + 4 /\ At(t, c2 + 1, END)
                     THEN [guardClose |-> c, resp |-> r, end |-> c2 + 2]
                     ELSE NoMatch
             ELSE NoMatch
     ELSE NoMatch

\* The inner pattern, at position i of the response.
StatusPattern(r, i) ==
  LET c == FirstClose(r, i + 4)
  IN /\ At(r, i, STATUS) /\ AtCode(r, i + 1) /\ At(r, i + 2, JSON) /\ At(r, i + 3, LB)
     /\ c > i + 4 /\ At(r, c + 1, END)

\* The inner pattern written as the error-object pattern of
\* add_debug_to_error_responses: what the search would be had the extraction
\* asked for an error object.
StatusSearchErrorObject(r) ==
  LET S == {i \in 1..Len(r) : ErrPatternPlain(r, i).end # 0}
  IN IF S = {} THEN [found |-> FALSE, code |-> "", body |-> <<>>]
     ELSE LET i == Min(S)
              m == ErrPatternPlain(r, i)
          IN [found |-> TRUE, code |-> r[i + 1],
              body |-> Slice(r, m.bodyStart, m.close - 1)]

\* re.search of the inner pattern in the response: the status code and the
\* content of the first match, found = FALSE when there is none.
StatusSearch(r) ==
  LET S == {i \in 1..Len(r) : StatusPattern(r, i)}
  IN IF S = {} THEN [found |-> FALSE, code |-> "", body |-> <<>>]
     ELSE LET i == CHOOSE x \in S : \A y \in S : x <= y
          IN [found |-> TRUE, code |-> r[i + 1],
              body |-> Slice(r, i + 4, FirstClose(r, i + 4) - 1)]

\* replacement(match) of add_debug_to_early_returns.
EarlyReplacement(t, i, m) ==
  LET response == Slice(t, m.resp, m.end - 1)
      status_match == StatusSearch(response)
  IN IF status_match.found
     THEN Slice(t, i, m.guardClose) \o WarnBlock(MSG_NOT_CFG)
            \o WrappedHead(status_match.body) \o WrappedTail(status_match.code)
     ELSE Slice(t, i, m.end - 1)

RECURSIVE SubEarly(_, _)
SubEarly(t, i) ==
  LET S == {j \in i..Len(t) : EarlyPattern(t, j).end # 0}
  IN IF S = {} THEN Slice(t, i, Len(t))
     ELSE LET j == Min(S)
              m == EarlyPattern(t, j)
          IN Slice(t, i, j - 1) \o EarlyReplacement(t, j, m) \o SubEarly(t, m.end)

add_debug_to_early_returns(t) == SubEarly(t, 1)

(***************************************************************************)
(* fix-all-error-responses.py                                              *)
(***************************************************************************)

\* The end of the pattern of fix_error_responses, \}\s*\}\); at position p.
ErrTail(t, p) ==
  LET k == SkipWs(t, p + 1)
  IN At(t, p, RB) /\ At(t, k, RB) /\ At(t, k + 1, END)

\* (?:\{[^}]*\}[^}]*)* followed by the end of the pattern, tried at position p
\* in the order of the backtracking matcher: one more group first, each
\* [^}]* as long as it can be and then shorter.  The position of the brace
\* that closes the error object, 0 when nothing matches.
RECURSIVE ErrGroups(_, _)
ErrGroups(t, p) ==
  IF At(t, p, LB)
  THEN LET q == FirstClose(t, p + 1)
           r == FirstClose(t, q + 1)
           S == {e \in (q + 1)..(IF r = 0 THEN Len(t) ELSE r) :
                   (At(t, e, LB) \/ At(t, e, RB)) /\ ErrGroups(t, e) # 0}
       IN IF q = 0 \/ S = {} THEN 0 ELSE ErrGroups(t, Max(S))
  ELSE IF ErrTail(t, p) THEN p ELSE 0

\* The pattern of fix_error_responses at position i.
ErrPatternNested(t, i) ==
  LET NoMatch == [bodyStart |-> 0, close |-> 0, end |-> 0]
  IN IF At(t, i, STATUS) /\ AtCode(t, i + 1) /\ At(t, i + 2, JSON) /\ At(t, i + 3, LB)
     THEN LET j == SkipWs(t, i + 4)
              k == SkipWs(t, j + 1)
          IN IF At(t, j, ERROR) /\ At(t, k, LB)
             THEN LET c1 == FirstClose(t, k + 1)
                      S == {p \in (k + 2)..c1 :
                              (At(t, p, LB) \/ At(t, p, RB)) /\ ErrGroups(t, p) # 0}
                  IN IF c1 = 0 \/ S = {} THEN NoMatch
                     ELSE LET c == ErrGroups(t, Max(S))
                          IN [bodyStart |-> k + 1, close |-> c,
                              end |-> SkipWs(t, c + 1) + 2]
             ELSE NoMatch
     ELSE NoMatch

\* The tokens of s at the positions of K, in order.
Keep(s, K) ==
  [n \in 1..Cardinality(K) |-> s[CHOOSE k \in K : Cardinality({x \in K : x <= k}) = n]]

\* match.group(2).strip()
Strip(s) ==
  LET N == {i \in 1..Len(s) : s[i] \notin WS}
  IN IF N = {} THEN <<>> ELSE Slice(s, Min(N), Max(N))

\* re.sub(r'\s+', ' ', error_content)
CollapseWs(s) ==
  LET K == {i \in 1..Len(s) : s[i] \notin WS \/ i = 1 \/ s[i - 1] \notin WS}
      one == [i \in 1..Len(s) |-> IF s[i] \in WS THEN SP ELSE s[i]]
  IN Keep(one, K)

\* error_content.replace(' ,', ',')
NoBlankBeforeComma(s) ==
  Keep(s, {i \in 1..Len(s) : ~(s[i] = SP /\ At(s, i + 1, COMMA))})

CleanContent(body) == NoBlankBeforeComma(CollapseWs(Strip(body)))

RECURSIVE SubErrNested(_, _)
SubErrNested(t, i) ==
  LET S == {j \in i..Len(t) : ErrPatternNested(t, j).end # 0}
  IN IF S = {} THEN Slice(t, i, Len(t))
     ELSE LET j == Min(S)
              m == ErrPatternNested(t, j)
          IN Slice(t, i, j - 1)
               \o WrappedHead(<<ERROR, SP, LB, SP>>)
               \o CleanContent(Slice(t, m.bodyStart, m.close - 1))
               \o <<SP, RB>> \o WrappedTail(t[j + 1])
               \o SubErrNested(t, m.end)

fix_error_responses(t) == SubErrNested(t, 1)

\* pattern1 and pattern2 of add_debug_to_early_returns at position i, head
\* being the condition of the guard: the position of the brace that closes
\* the guard, 0 when the pattern does not match.
GuardPattern(t, i, head) ==
  IF At(t, i, head) /\ At(t, i + 1, LB)
  THEN LET c == FirstClose(t, i + 2)
       IN IF /\ c # 0
             /\ \E w \in (i + 2)..(c - 1) : t[w] = WARN
             /\ At(t, SkipWs(t, c + 1), STATUS)
          THEN c ELSE 0
  ELSE 0

RECURSIVE SubGuard(_, _, _, _)
SubGuard(t, i, head, msg) ==
  LET S == {j \in i..Len(t) : GuardPattern(t, j, head) # 0}
  IN IF S = {} THEN Slice(t, i, Len(t))
     ELSE LET j == Min(S)
              c == GuardPattern(t, j, head)
          IN Slice(t, i, c) \o WarnBlock(msg) \o <<STATUS>>
               \o SubGuard(t, SkipWs(t, c + 1) + 1, head, msg)

add_debug_to_early_returns_fix_all(t) ==
  SubGuard(SubGuard(t, 1, IF_NOT_CFG, MSG_NOT_CFG), 1, IF_NOT_INIT, MSG_NOT_INIT)

(***************************************************************************)
(* add-expert-mode-init.py                                                 *)
(***************************************************************************)
START_TIME == "const startTime = Date.now();"
LOG_INFO == "logger.info("
DEBUG_DECL == "const debugInfo = req.expertMode"
PLACEHOLDER == "OPERATION_PLACEHOLDER"
ROUTER_GET == "router.get("
ROUTER_POST == "router.post("
ROUTER_DELETE == "router.delete("
Routers == {ROUTER_GET, ROUTER_POST, ROUTER_DELETE}

\* The pattern of add_expert_mode_init at position i: the position of
\* logger.info( when only white space with two line breaks or more lies
\* between the timer start and it, 0 otherwise.
InitPattern(t, i) ==
  LET j == SkipWs(t, i + 1)
  IN IF /\ At(t, i, START_TIME)
        /\ At(t, j, LOG_INFO)
        /\ Cardinality({k \in (i + 1)..(j - 1) : t[k] = NL}) >= 2
     THEN j ELSE 0

InitBlock ==
  << NL, IND, "const expertModeService = new ExpertModeService();",
     NL, IND, "const requestId = req.id ?? expertModeService.generateRequestId();",
     NL, NL, IND, "// Create debug info once at the start if expert mode is enabled",
     NL, IND, DEBUG_DECL,
     NL, IND, "? expertModeService.createDebugInfo('", PLACEHOLDER, "', requestId, 0)",
     NL, IND, ": null;",
     NL, NL, IND, IF_DEBUG, LB,
     NL, IND, "expertModeService.setIntegration(debugInfo, 'puppetserver');",
     NL, IND, RB, NL, NL, IND >>

RECURSIVE SubInit(_, _)
SubInit(t, i) ==
  LET S == {j \in i..Len(t) : InitPattern(t, j) # 0}
  IN IF S = {} THEN Slice(t, i, Len(t))
     ELSE LET j == Min(S)
              e == InitPattern(t, j)
          IN Slice(t, i, j) \o InitBlock \o <<LOG_INFO>> \o SubInit(t, e + 1)

add_expert_mode_init(t) == SubInit(t, 1)

\* The table of fix_operation_names: the quoted path and the operation name.
routes ==
  << <<"\"/nodes/:certname/status\"", "GET /api/integrations/puppetserver/nodes/:certname/status">>,
     <<"\"/nodes/:certname/facts\"", "GET /api/integrations/puppetserver/nodes/:certname/facts">>,
     <<"\"/catalog/:certname/:environment\"", "GET /api/integrations/puppetserver/catalog/:certname/:environment">>,
     <<"\"/catalog/compare\"", "POST /api/integrations/puppetserver/catalog/compare">>,
     <<"\"/environments\"", "GET /api/integrations/puppetserver/environments">>,
     <<"\"/environments/:name\"", "GET /api/integrations/puppetserver/environments/:name">>,
     <<"\"/environments/:name/deploy\"", "POST /api/integrations/puppetserver/environments/:name/deploy">>,
     <<"\"/environments/:name/cache\"", "DELETE /api/integrations/puppetserver/environments/:name/cache">>,
     <<"\"/status/services\"", "GET /api/integrations/puppetserver/status/services">>,
     <<"\"/status/simple\"", "GET /api/integrations/puppetserver/status/simple">>,
     <<"\"/admin-api\"", "GET /api/integrations/puppetserver/admin-api">>,
     <<"\"/metrics\"", "GET /api/integrations/puppetserver/metrics">> >>

\* The pattern of one route at position i: a route definition of any of the
\* three methods with this path, and then the shortest text (.*?) up to a
\* placeholder.  The position of that placeholder, 0 when it does not match.
RoutePattern(t, i, route_pattern) ==
  LET j == SkipWs(t, i + 1)
      P == {k \in (j + 1)..Len(t) : t[k] = PLACEHOLDER}
  IN IF i >= 1 /\ i <= Len(t) /\ t[i] \in Routers /\ At(t, j, route_pattern) /\ P # {}
     THEN Min(P) ELSE 0

RECURSIVE SubRoute(_, _, _, _)
SubRoute(t, i, route_pattern, operation_name) ==
  LET S == {j \in i..Len(t) : RoutePattern(t, j, route_pattern) # 0}
  IN IF S = {} THEN Slice(t, i, Len(t))
     ELSE LET j == Min(S)
              e == RoutePattern(t, j, route_pattern)
          IN Slice(t, i, e - 1) \o <<operation_name>>
               \o SubRoute(t, e + 1, route_pattern, operation_name)

\* The loop over the table, from entry n on.
RECURSIVE FixFrom(_, _)
FixFrom(t, n) ==
  IF n > Len(routes) THEN t
  ELSE FixFrom(SubRoute(t, 1, routes[n][1], routes[n][2]), n + 1)

fix_operation_names(t) == FixFrom(t, 1)

(***************************************************************************)
(* transform-expert-mode.py                                                *)
(***************************************************************************)
HEMR == "handleExpertModeResponse"
LPAREN == "("
COLON == ":"
FROM_UTILS == "from \"./utils\";"
IMPORT == "import "
EMS == "ExpertModeService"
FROM_EMS == "from \"../../services/ExpertModeService\";"
QuotedStrings == {"'GET /nodes'", "'puppetserver'"}

\* The pattern of transform_handle_expert_mode_response at position i: the
\* metadata (group 3) is t[metaStart..close-1]; end = 0 when it does not match.
CallPattern(t, i) ==
  LET NoMatch == [metaStart |-> 0, close |-> 0, end |-> 0]
      a == SkipWs(t, i + 1)
      b == SkipWs(t, a + 1)
      c == SkipWs(t, b + 2)
      d == SkipWs(t, c + 2)
      e == SkipWs(t, d + 2)
      f == SkipWs(t, e + 2)
      g == SkipWs(t, f + 2)
      h == SkipWs(t, g + 2)
      close == FirstClose(t, h + 1)
      z == SkipWs(t, close + 1)
  IN IF /\ At(t, i, HEMR) /\ At(t, a, LPAREN)
        /\ At(t, b, "req") /\ At(t, b + 1, COMMA)
        /\ At(t, c, "res") /\ At(t, c + 1, COMMA)
        /\ At(t, d, "responseData") /\ At(t, d + 1, COMMA)
        /\ e <= Len(t) /\ t[e] \in QuotedStrings /\ At(t, e + 1, COMMA)
        /\ At(t, f, "duration") /\ At(t, f + 1, COMMA)
        /\ g <= Len(t) /\ t[g] \in QuotedStrings /\ At(t, g + 1, COMMA)
        /\ At(t, h, LB) /\ close # 0 /\ At(t, z, END)
     THEN [metaStart |-> h + 1, close |-> close, end |-> z + 1]
     ELSE NoMatch

\* replacement(match) of transform_handle_expert_mode_response.
CallReplacement(metadata) ==
  LET colons == {k \in 1..Len(metadata) : metadata[k] = COLON}
      k == Min(colons)
      key == Strip(Slice(metadata, 1, k - 1))
      value == Strip(Slice(metadata, k + 1, Len(metadata)))
      added == IF Cardinality(colons) = 1
               THEN <<NL, IND, "expertModeService.addMetadata(debugInfo, '">> \o key
                      \o <<"', ">> \o value \o <<END>>
               ELSE <<>>
  IN <<IF_DEBUG, LB, NL, IND, "debugInfo.duration = duration;">> \o added
       \o << NL, IND, PERF, NL, IND, CTX, NL, IND,
             "res.json(expertModeService.attachDebugInfo(responseData, debugInfo));",
             NL, IND, RB, " else ", LB, NL, IND, "res.json(responseData);", NL, IND, RB >>

RECURSIVE SubCall(_, _)
SubCall(t, i) ==
  LET S == {j \in i..Len(t) : CallPattern(t, j).end # 0}
  IN IF S = {} THEN Slice(t, i, Len(t))
     ELSE LET j == Min(S)
              m == CallPattern(t, j)
          IN Slice(t, i, j - 1)
               \o CallReplacement(Strip(Slice(t, m.metaStart, m.close - 1)))
               \o SubCall(t, m.end)

transform_handle_expert_mode_response(t) == SubCall(t, 1)

\* re.sub(r'handleExpertModeResponse,\s*', '', content), from position i on.
RECURSIVE RemoveHelperImport(_, _)
RemoveHelperImport(t, i) ==
  LET S == {j \in i..Len(t) : At(t, j, HEMR) /\ At(t, j + 1, COMMA)}
  IN IF S = {} THEN Slice(t, i, Len(t))
     ELSE LET j == Min(S)
          IN Slice(t, i, j - 1) \o RemoveHelperImport(t, SkipWs(t, j + 2))

\* 'import { ExpertModeService }' in content
ImportAt(t, i) ==
  /\ At(t, i, IMPORT) /\ At(t, i + 1, LB) /\ At(t, i + 2, SP)
  /\ At(t, i + 3, EMS) /\ At(t, i + 4, SP) /\ At(t, i + 5, RB)

HasImport(t) == \E i \in 1..Len(t) : ImportAt(t, i)

\* content.replace('from "./utils";', ...): every occurrence, from i on.
RECURSIVE ReplaceAnchors(_, _)
ReplaceAnchors(t, i) ==
  LET S == {j \in i..Len(t) : t[j] = FROM_UTILS}
  IN IF S = {} THEN Slice(t, i, Len(t))
     ELSE LET j == Min(S)
          IN Slice(t, i, j) \o <<NL, IMPORT, LB, SP, EMS, SP, RB, SP, FROM_EMS>>
               \o ReplaceAnchors(t, j + 1)

AddImport(t) == IF ~HasImport(t) THEN ReplaceAnchors(t, 1) ELSE t

(***************************************************************************)
(* The input files: up to MaxFrags fragments, one after the other.         *)
(***************************************************************************)
RECURSIVE Texts(_, _)
Texts(F, n) ==
  IF n = 0 THEN {<<>>}
  ELSE LET Shorter == Texts(F, n - 1)
       IN Shorter \cup {s \o f : s \in Shorter, f \in F}

Inputs(F) == Texts(F, MaxFrags)

(***************************************************************************)
(* The steps every main() shares: read the file, open it for writing       *)
(* (which truncates it), write the text.  Each of the three may fail.      *)
(***************************************************************************)
StrictPrefixes(t) == {Slice(t, 1, n) : n \in 0..(Len(t) - 1)}

Read ==
  /\ pc = "start"
  /\ content' = file
  /\ original' = file
  /\ pc' = "loaded"
  /\ UNCHANGED <<file, runs>>

ReadFails ==
  /\ pc = "start"
  /\ pc' = "aborted"
  /\ original' = file
  /\ UNCHANGED <<file, content, runs>>

OpenForWrite(last) ==
  /\ pc = last
  /\ file' = <<>>
  /\ pc' = "opened"
  /\ UNCHANGED <<content, original, runs>>

OpenForWriteFails(last) ==
  /\ pc = last
  /\ pc' = "aborted"
  /\ UNCHANGED <<file, content, original, runs>>

Write ==
  /\ pc = "opened"
  /\ file' = content
  /\ pc' = "done"
  /\ UNCHANGED <<content, original, runs>>

WriteFails ==
  /\ pc = "opened"
  /\ file' \in StrictPrefixes(content)
  /\ pc' = "aborted"
  /\ UNCHANGED <<content, original, runs>>

\* The script is run again on the file it wrote.
RunAgain ==
  /\ pc = "done"
  /\ runs < MaxRuns
  /\ runs' = runs + 1
  /\ pc' = "start"
  /\ content' = <<>>
  /\ UNCHANGED <<file, original>>

InitOn(F) ==
  /\ file \in Inputs(F)
  /\ content = <<>>
  /\ original = file
  /\ pc = "start"
  /\ runs = 1

(***************************************************************************)
(* main() of add-error-debug-info.py                                       *)
(***************************************************************************)
X == "code: \"X\""
CatchRegion == <<RB, CATCH, LB, NL, IND, DURATION, NL>>
FlatResponse == <<STATUS, "400", JSON, LB, SP, ERROR, SP, LB, SP, X, SP, RB, SP, RB, END, NL>>
NestedResponse ==
  <<STATUS, "503", JSON, LB, NL, IND, ERROR, SP, LB, SP, "details:", SP, LB, SP, "cause:", SP, LB,
    SP, X, SP, RB, SP, RB, SP, RB, NL, IND, RB, END, NL>>
OpenResponse == <<STATUS, "400", JSON, LB, SP, ERROR, SP, LB, SP, "details:", SP, LB, SP, X, SP, RB, END, NL>>
BareResponse == <<STATUS, "400", JSON, LB, SP, ERROR, SP, LB, SP, X, SP, END, NL>>

DebugInfoFrags == {CatchRegion, FlatResponse, NestedResponse, OpenResponse, BareResponse}

DebugCatch ==
  /\ pc = "loaded"
  /\ content' = add_debug_to_catch_block(content)
  /\ pc' = "pass1"
  /\ UNCHANGED <<file, original, runs>>

DebugResponses ==
  /\ pc = "pass1"
  /\ content' = add_debug_to_error_responses(content)
  /\ pc' = "pass2"
  /\ UNCHANGED <<file, original, runs>>

InitDebugInfo == InitOn(DebugInfoFrags)

NextDebugInfo ==
  \/ Read
  \/ ReadFails
  \/ DebugCatch
  \/ DebugResponses
  \/ OpenForWrite("pass2")
  \/ OpenForWriteFails("pass2")
  \/ Write
  \/ WriteFails
  \/ RunAgain

SpecDebugInfo == InitDebugInfo /\ [][NextDebugInfo]_vars

(***************************************************************************)
(* main() of fix-all-error-responses.py                                    *)
(***************************************************************************)
GuardCfg == <<IF_NOT_CFG, LB, NL, IND, WARN, "(\"not configured\");", NL, IND, RB, NL, IND>>
GuardInit == <<IF_NOT_INIT, LB, SP, WARN, "(\"not initialized\");", SP, RB, NL, IND>>
SpacedResponse ==
  <<STATUS, "503", JSON, LB, NL, IND, ERROR, SP, LB, NL, IND, X, SP, COMMA, NL, IND,
    "message: \"M\"", NL, IND, RB, NL, IND, RB, END, NL>>

FixAllFrags == {GuardCfg, GuardInit, SpacedResponse, NestedResponse, OpenResponse, BareResponse}

FixResponses ==
  /\ pc = "loaded"
  /\ content' = fix_error_responses(content)
  /\ pc' = "pass1"
  /\ UNCHANGED <<file, original, runs>>

FixEarlyReturns ==
  /\ pc = "pass1"
  /\ content' = add_debug_to_early_returns_fix_all(content)
  /\ pc' = "pass2"
  /\ UNCHANGED <<file, original, runs>>

InitFixAll == InitOn(FixAllFrags)

NextFixAll ==
  \/ Read
  \/ ReadFails
  \/ FixResponses
  \/ FixEarlyReturns
  \/ OpenForWrite("pass2")
  \/ OpenForWriteFails("pass2")
  \/ Write
  \/ WriteFails
  \/ RunAgain

SpecFixAll == InitFixAll /\ [][NextFixAll]_vars

(***************************************************************************)
(* main() of add-expert-mode-init.py                                       *)
(***************************************************************************)
HANDLER == "asyncHandler(async (req: Request, res: Response): Promise<void> => "
HandlerOpen(router, path) == <<router, NL, IND, path, COMMA, NL, IND, HANDLER, LB, NL, IND>>
HandlerClose == <<NL, IND, RB, ")", COMMA, NL, END, NL>>
TimedBody == <<START_TIME, NL, NL, IND, LOG_INFO, "\"request\"", END, NL, IND, "res.json(data);">>
DeclaredBody ==
  TimedBody \o <<NL, IND, DEBUG_DECL, SP, "? expertModeService.createDebugInfo('", PLACEHOLDER,
                 "', requestId, 0)", SP, ": null;">>

TimedListed == HandlerOpen(ROUTER_GET, "\"/environments\"") \o TimedBody \o HandlerClose
TimedUnlisted == HandlerOpen(ROUTER_GET, "\"/health\"") \o TimedBody \o HandlerClose
UntimedListed == HandlerOpen(ROUTER_GET, "\"/metrics\"") \o <<"res.json(data);">> \o HandlerClose
DeclaredListed == HandlerOpen(ROUTER_GET, "\"/status/simple\"") \o DeclaredBody \o HandlerClose
TimedPost == HandlerOpen(ROUTER_POST, "\"/environments\"") \o TimedBody \o HandlerClose

InitFrags == {TimedListed, TimedUnlisted, UntimedListed, DeclaredListed, TimedPost}

InitDiagnostics ==
  /\ pc = "loaded"
  /\ content' = add_expert_mode_init(content)
  /\ pc' = "pass1"
  /\ UNCHANGED <<file, original, runs>>

ResolveNames ==
  /\ pc = "pass1"
  /\ content' = fix_operation_names(content)
  /\ pc' = "pass2"
  /\ UNCHANGED <<file, original, runs>>

InitExpertInit == InitOn(InitFrags)

NextExpertInit ==
  \/ Read
  \/ ReadFails
  \/ InitDiagnostics
  \/ ResolveNames
  \/ OpenForWrite("pass2")
  \/ OpenForWriteFails("pass2")
  \/ Write
  \/ WriteFails
  \/ RunAgain

SpecExpertInit == InitExpertInit /\ [][NextExpertInit]_vars

(***************************************************************************)
(* main() of transform-expert-mode.py                                      *)
(***************************************************************************)
UtilsImport ==
  <<IMPORT, LB, SP, "asyncHandler", COMMA, SP, HEMR, COMMA, SP, "createLogger", SP, RB, SP,
    FROM_UTILS, NL>>
TypesImport == <<"import type ", LB, SP, "RouteOptions", SP, RB, SP, FROM_UTILS, NL>>
ServiceImport == <<IMPORT, LB, SP, EMS, SP, RB, SP, FROM_EMS, NL>>
CallHead ==
  <<HEMR, LPAREN, NL, IND, "req", COMMA, SP, "res", COMMA, SP, "responseData", COMMA, SP,
    "'GET /nodes'", COMMA, SP, "duration", COMMA, SP, "'puppetserver'", COMMA, SP>>
CallOneKey == CallHead \o <<LB, SP, "count", COLON, SP, "nodes.length", SP, RB, NL, IND, END, NL>>
CallNoKey == CallHead \o <<LB, RB, END, NL>>
CallTwoKeys ==
  CallHead \o <<LB, SP, "a", COLON, SP, "1", COMMA, SP, "b", COLON, SP, "2", SP, RB, END, NL>>

TransformFrags == {UtilsImport, TypesImport, ServiceImport, CallOneKey, CallNoKey, CallTwoKeys}

TransformRemoveHelper ==
  /\ pc = "loaded"
  /\ content' = RemoveHelperImport(content, 1)
  /\ pc' = "pass1"
  /\ UNCHANGED <<file, original, runs>>

TransformAddImport ==
  /\ pc = "pass1"
  /\ content' = AddImport(content)
  /\ pc' = "pass2"
  /\ UNCHANGED <<file, original, runs>>

TransformCalls ==
  /\ pc = "pass2"
  /\ content' = transform_handle_expert_mode_response(content)
  /\ pc' = "pass3"
  /\ UNCHANGED <<file, original, runs>>

InitTransform == InitOn(TransformFrags)

NextTransform ==
  \/ Read
  \/ ReadFails
  \/ TransformRemoveHelper
  \/ TransformAddImport
  \/ TransformCalls
  \/ OpenForWrite("pass3")
  \/ OpenForWriteFails("pass3")
  \/ Write
  \/ WriteFails
  \/ RunAgain

SpecTransform == InitTransform /\ [][NextTransform]_vars

(***************************************************************************)
(* add_debug_to_early_returns of add-error-debug-info.py, which no main()  *)
(* calls: applied to a text, and again to its own result.                  *)
(***************************************************************************)
GuardNoWarn == <<IF_NOT_CFG, LB, SP, "return;", SP, RB, NL, IND>>
GuardTight == <<IF_NOT_CFG, LB, WARN, "(\"not configured\");", RB>>
StringResponse == <<STATUS, "503", JSON, LB, SP, ERROR, SP, "\"A\"", SP, RB, END, NL>>
EmptyResponse == <<STATUS, "400", JSON, LB, RB, END, NL>>

EarlyFrags ==
  {GuardCfg, GuardNoWarn, GuardTight, StringResponse, EmptyResponse, FlatResponse, BareResponse}

ApplyEarlyReturns ==
  /\ pc \in {"loaded", "applied"}
  /\ runs <= MaxRuns
  /\ original' = content
  /\ content' = add_debug_to_early_returns(content)
  /\ pc' = "applied"
  /\ runs' = runs + 1
  /\ UNCHANGED file

InitEarly ==
  /\ file \in Inputs(EarlyFrags)
  /\ content = file
  /\ original = file
  /\ pc = "loaded"
  /\ runs = 1

NextEarly == ApplyEarlyReturns

SpecEarly == InitEarly /\ [][NextEarly]_vars

(***************************************************************************)
(* What the properties speak of.                                           *)
(***************************************************************************)
\* Opening braces less closing braces in t[a..b].
Depth(t, a, b) ==
  Cardinality({k \in a..b : t[k] = LB}) - Cardinality({k \in a..b : t[k] = RB})

Balanced(t, a, b) ==
  /\ Depth(t, a, b) = 0
  /\ \A k \in a..b : Depth(t, a, k) >= 0

\* The brace that closes the brace opened at k, by counting the depth; 0 when
\* it is never closed.
MatchingClose(t, k) ==
  LET S == {c \in (k + 1)..Len(t) : Depth(t, k, c) = 0}
  IN IF S = {} THEN 0 ELSE Min(S)

\* A response statement res.status(N).json({ error: { ... } }); at i whose
\* braces balance: the brace that opens the error object, the one that closes
\* it by depth, and the position after the statement; end = 0 when there is
\* no such statement at i.
BalancedResponse(t, i) ==
  LET None == [open |-> 0, close |-> 0, end |-> 0]
      j == SkipWs(t, i + 4)
      k == SkipWs(t, j + 1)
      c == MatchingClose(t, k)
      z == SkipWs(t, c + 1)
  IN IF /\ At(t, i, STATUS) /\ AtCode(t, i + 1) /\ At(t, i + 2, JSON) /\ At(t, i + 3, LB)
        /\ At(t, j, ERROR) /\ At(t, k, LB) /\ c # 0
        /\ At(t, z, RB) /\ At(t, z + 1, END)
     THEN [open |-> k, close |-> c, end |-> z + 2]
     ELSE None

\* How deep the object literals inside the error object opened at k nest.
NestingInside(t, k, c) ==
  Max({0} \cup {Depth(t, k + 1, p) : p \in (k + 1)..(c - 1)})

\* The statement that starts at i, up to its ");" (to the end without one).
StatementEnd(t, i) ==
  LET S == {e \in i..Len(t) : t[e] = END}
  IN IF S = {} THEN Len(t) ELSE Min(S)

\* The handlers of a file: each starts at a route definition and runs to the
\* next one.
HandlerStarts(t) == {h \in 1..Len(t) : t[h] \in Routers}

HandlerEnd(t, h) ==
  LET S == {x \in HandlerStarts(t) : x > h}
  IN IF S = {} THEN Len(t) ELSE Min(S) - 1

HandlerPath(t, h) == LET j == SkipWs(t, h + 1) IN IF j <= Len(t) THEN t[j] ELSE ""

CountIn(t, a, b, tok) == Cardinality({k \in a..b : t[k] = tok})

TableIndex == 1..Len(routes)
OperationNames == {routes[n][2] : n \in TableIndex}
TablePaths == {routes[n][1] : n \in TableIndex}

\* The method each operation name of the table starts with.
NameMethod(n) ==
  IF n \in {4, 7} THEN ROUTER_POST ELSE IF n = 8 THEN ROUTER_DELETE ELSE ROUTER_GET

\* The guards of a text, in order: the condition, a block without a closing
\* brace inside that warns.
IsGuard(t, i) ==
  /\ (At(t, i, IF_NOT_CFG) \/ At(t, i, IF_NOT_INIT))
  /\ At(t, i + 1, LB)
  /\ FirstClose(t, i + 2) # 0
  /\ \E w \in (i + 2)..(FirstClose(t, i + 2) - 1) : t[w] = WARN

Guards(t) == {i \in 1..Len(t) : IsGuard(t, i)}

NthGuard(t, n) == CHOOSE g \in Guards(t) : Cardinality({x \in Guards(t) : x <= g}) = n

GuardMessage(t, g) == IF t[g] = IF_NOT_CFG THEN MSG_NOT_CFG ELSE MSG_NOT_INIT

\* The guard at g is at once followed by a well-formed error response.
GuardWithResponse(t, g) ==
  LET r == SkipWs(t, FirstClose(t, g + 2) + 1)
      m == BalancedResponse(t, r)
  IN m.end # 0 /\ NestingInside(t, m.open, m.close) = 0

\* The wrapped shape at position a: build errorResponse, attach the debug
\* info, send.
WrappedAt(t, a) ==
  LET c == MatchingClose(t, a + 1)
      r == SkipWs(t, c + 2)
  IN /\ At(t, a, CONST_ERR) /\ At(t, a + 1, LB) /\ c # 0 /\ At(t, c + 1, SEMI)
     /\ At(t, r, STATUS) /\ AtCode(t, r + 1) /\ At(t, r + 2, JSON)
     /\ At(t, SkipWs(t, r + 3), ATTACH)

\* The guard at g is followed by the warning block and then by its response
\* in the wrapped shape.
GuardInstrumented(t, g) ==
  LET c == FirstClose(t, g + 2)
      block == WarnBlock(GuardMessage(t, g))
      e == c + Len(block)
  IN /\ e + 1 <= Len(t)
     /\ Slice(t, c + 1, e) = block
     /\ WrappedAt(t, e + 1)

ImportCount(t) == Cardinality({i \in 1..Len(t) : ImportAt(t, i)})

(***************************************************************************)
(* Properties.                                                             *)
(***************************************************************************)

\* C1: every pass is idempotent: applied to its own result, a pass changes
\* nothing.  In particular a catch region that already has the inserted
\* if (debugInfo) block is left as it is by add_debug_to_catch_block.
C1_EveryPassIdempotent ==
  pc = "loaded" =>
    LET T == content
    IN /\ add_expert_mode_init(add_expert_mode_init(T)) = add_expert_mode_init(T)
       /\ add_debug_to_error_responses(add_debug_to_error_responses(T))
            = add_debug_to_error_responses(T)
       /\ fix_error_responses(fix_error_responses(T)) = fix_error_responses(T)
       /\ add_debug_to_early_returns_fix_all(add_debug_to_early_returns_fix_all(T))
            = add_debug_to_early_returns_fix_all(T)
       /\ fix_operation_names(fix_operation_names(T)) = fix_operation_names(T)
       /\ transform_handle_expert_mode_response(transform_handle_expert_mode_response(T))
            = transform_handle_expert_mode_response(T)
       /\ add_debug_to_catch_block(add_debug_to_catch_block(T)) = add_debug_to_catch_block(T)

\* C2: after any number of runs, every handler of the file holds at most one
\* declaration of debugInfo.
C2_AtMostOneDeclaration ==
  \A h \in HandlerStarts(file) : CountIn(file, h, HandlerEnd(file, h), DEBUG_DECL) <= 1

\* C3: an operation name stands only in a handler whose path and method are
\* those of the table entry of that name.
C3_NameOfEnclosingHandler ==
  \A p \in 1..Len(file) :
    file[p] \in OperationNames =>
      /\ \E h \in HandlerStarts(file) : h < p
      /\ LET h == Max({x \in HandlerStarts(file) : x < p})
         IN \E n \in TableIndex :
              /\ routes[n][2] = file[p]
              /\ routes[n][1] = HandlerPath(file, h)
              /\ NameMethod(n) = file[h]

\* C4: when a run is complete, a handler whose path the table does not list
\* holds no operation name: each declaration in it still has its placeholder.
C4_UnlistedKeepsPlaceholder ==
  pc = "done" =>
    \A h \in HandlerStarts(file) :
      HandlerPath(file, h) \notin TablePaths =>
        LET e == HandlerEnd(file, h)
        IN /\ \A p \in h..e : file[p] \notin OperationNames
           /\ CountIn(file, h, e, PLACEHOLDER) = CountIn(file, h, e, DEBUG_DECL)

\* C5: when a run of fix-all-error-responses is complete, every guard that was
\* at once followed by an error response in the file as read is followed by
\* the warning block and then by its response in the wrapped shape.
C5_EarlyExitsInstrumented ==
  pc = "done" =>
    \A n \in 1..Cardinality(Guards(original)) :
      GuardWithResponse(original, NthGuard(original, n)) =>
        /\ Cardinality(Guards(file)) >= n
        /\ GuardInstrumented(file, NthGuard(file, n))

\* C6: a balanced response whose error object holds object literals nested
\* two deep or deeper is matched by both matchers, and the content they
\* capture ends at the brace that closes the error object.
C6_WholeNestedPayload ==
  pc = "loaded" =>
    \A i \in 1..Len(content) :
      LET b == BalancedResponse(content, i)
      IN (b.end # 0 /\ NestingInside(content, b.open, b.close) >= 2) =>
           /\ ErrPatternNested(content, i).close = b.close
           /\ ErrPatternPlain(content, i).close = b.close

\* C7: a response statement whose braces do not balance is not matched, and
\* no match holds a second response statement.
C7_UnbalancedLeftAlone ==
  pc = "loaded" =>
    \A i \in 1..Len(content) :
      At(content, i, STATUS) =>
        LET n == ErrPatternNested(content, i)
            m == ErrPatternPlain(content, i)
            unbalanced == ~Balanced(content, i, StatementEnd(content, i))
        IN /\ unbalanced => (n.end = 0 /\ m.end = 0)
           /\ n.end # 0 => \A k \in (i + 1)..(n.end - 1) : content[k] # STATUS
           /\ m.end # 0 => \A k \in (i + 1)..(m.end - 1) : content[k] # STATUS

\* C8: when a run of transform-expert-mode is complete, the file holds
\* exactly one import of ExpertModeService.
C8_ExactlyOneImport ==
  pc = "done" => ImportCount(file) = 1

\* C9: a run that aborts leaves the file as it was read, and a run that
\* completes leaves the transformed text in it.
C9_NoPartialWrite ==
  /\ pc = "aborted" => file = original
  /\ pc = "done" => file = content

\* C10: wherever the outer pattern of add_debug_to_early_returns matches, the
\* inner search finds the status code and the payload in the response it
\* captured, so the replacement is the instrumented form and never the
\* matched text itself.
C10_InnerAlwaysMatches ==
  \A i \in 1..Len(content) :
    LET m == EarlyPattern(content, i)
    IN m.end # 0 =>
         /\ StatusSearch(Slice(content, m.resp, m.end - 1)).found
         /\ EarlyReplacement(content, i, m) # Slice(content, i, m.end - 1)

\* The pass has rewritten an early exit: its text matched the outer pattern
\* and the result holds a warning block the text did not.
C10_Witness ==
  /\ pc = "applied"
  /\ \E i \in 1..Len(original) : EarlyPattern(original, i).end # 0
  /\ Count(content, MSG_NOT_CFG) > Count(original, MSG_NOT_CFG)
  /\ content = add_debug_to_early_returns(original)

====
